---- MODULE Spec2Model ----
(***************************************************************************)
(* The file-backed message store of go-msgstore (fileStore): an            *)
(* append-only body file with a header file of "seqnum,offset,size" lines, *)
(* an in-memory index (offsets) rebuilt from the header file, two          *)
(* fixed-width counter files and a session file holding the creation time. *)
(*                                                                         *)
(* File contents are sequences of one-character strings.  Every file has   *)
(* the content the process sees (data) and the content that survives a     *)
(* crash (synced): a write changes data, File.Sync copies data to synced.  *)
(* Creating and removing a file is taken to be durable at once.            *)
(***************************************************************************)
EXTENDS Integers, Sequences, FiniteSets, TLC

VARIABLES alive, cache, offsets, open, fs, clock, last, saved, nsaves, clean,
          fault, nfaults, dir, born, allok, db

vars == <<alive, cache, offsets, open, fs, clock, last, saved, nsaves, clean,
          fault, nfaults, dir, born, allok, db>>

(***************************************************************************)
(* Bounds of the model.                                                    *)
(***************************************************************************)
\* SaveMessage is called with seqNum in 1..MaxSeqNum
MaxSeqNum == 3
\* SaveMessage succeeds at most MaxSaves times before the store is reset, and
\* as many times after it
MaxSaves == 2
\* SetNext*MsgSeqNum is called with next in -1..MaxNext
MaxNext == 2
\* IncrNext*MsgSeqNum is called while the counter is below MaxIncr
MaxIncr == 3
\* the wall clock is read at most MaxClock times
MaxClock == 5
\* a step of an operation fails in at most MaxFaults operations
MaxFaults == 1

\* width of the counter files' encoding, "%019d"
SeqNumWidth == 19

SeqNums == 1..MaxSeqNum
NextArgs == (0 - 1)..MaxNext
Msgs == {<<"a">>, <<"b", "c">>}
RangeEnds == 0..(MaxSeqNum + 1)

body == "body"
header == "header"
session == "session"
senderseqnums == "senderseqnums"
targetseqnums == "targetseqnums"
FileNames == {body, header, session, senderseqnums, targetseqnums}

(***************************************************************************)
(* Text conversions.                                                       *)
(***************************************************************************)
DigitChars == <<"0", "1", "2", "3", "4", "5", "6", "7", "8", "9">>

IsDigit(c) == \E d \in 1..10 : DigitChars[d] = c

DigitVal(c) == (CHOOSE d \in 1..10 : DigitChars[d] = c) - 1

RECURSIVE NatDigits(_)
NatDigits(n) ==
    IF n < 10 THEN <<DigitChars[n + 1]>>
    ELSE NatDigits(n \div 10) \o <<DigitChars[(n % 10) + 1]>>

RECURSIVE Zeros(_)
Zeros(k) == IF k <= 0 THEN <<>> ELSE <<"0">> \o Zeros(k - 1)

\* fmt verb %d
FormatD(n) == IF n < 0 THEN <<"-">> \o NatDigits(0 - n) ELSE NatDigits(n)

\* the sign and the digits of a number padded with zeros to the width: the
\* sign is counted in the width, and text longer than the width is not cut
Pad019(sign, digits) == sign \o Zeros(SeqNumWidth - Len(sign) - Len(digits)) \o digits

\* fmt verb %019d
Format019d(n) == Pad019(IF n < 0 THEN <<"-">> ELSE <<>>, NatDigits(IF n < 0 THEN 0 - n ELSE n))

\* An int of 64 bits that is too large for the integers of the model checker
\* is held as its sign and the decimal digits of its magnitude.
Wide(neg, digits) == [neg |-> neg, digits |-> digits]

\* 2^63 - 1 and 2^63
MaxInt64 ==
    <<"9", "2", "2", "3", "3", "7", "2", "0", "3", "6", "8", "5", "4", "7", "7", "5",
      "8", "0", "7">>
MinInt64Magnitude ==
    <<"9", "2", "2", "3", "3", "7", "2", "0", "3", "6", "8", "5", "4", "7", "7", "5",
      "8", "0", "8">>

\* the values SetNext*MsgSeqNum is called with, as wide ints
WideInts ==
    {Wide(FALSE, <<"0">>), Wide(FALSE, <<"1">>), Wide(TRUE, <<"1">>),
     Wide(FALSE, <<"4", "2">>), Wide(FALSE, MaxInt64), Wide(TRUE, <<"9">> \o Zeros(17)),
     Wide(TRUE, <<"1">> \o Zeros(18)), Wide(TRUE, MinInt64Magnitude)}

\* fmt verb %019d of a wide int
Format019dWide(n) == Pad019(IF n.neg THEN <<"-">> ELSE <<>>, n.digits)

\* the digits without their leading zeros
RECURSIVE StripZeros(_)
StripZeros(d) == IF Len(d) > 1 /\ d[1] = "0" THEN StripZeros(Tail(d)) ELSE d

\* a <= b, for digit sequences of the same length
RECURSIVE DigitsLeq(_, _)
DigitsLeq(a, b) ==
    \/ a = <<>>
    \/ DigitVal(a[1]) < DigitVal(b[1])
    \/ a[1] = b[1] /\ DigitsLeq(Tail(a), Tail(b))

\* the magnitude d is one of an int of 64 bits
FitsInt64(neg, d) ==
    \/ Len(d) < Len(MaxInt64)
    \/ Len(d) = Len(MaxInt64) /\ DigitsLeq(d, IF neg THEN MinInt64Magnitude ELSE MaxInt64)

RECURSIVE DigitsValue(_)
DigitsValue(s) ==
    IF s = <<>> THEN 0
    ELSE 10 * DigitsValue(SubSeq(s, 1, Len(s) - 1)) + DigitVal(s[Len(s)])

AllDigits(s) == \A i \in 1..Len(s) : IsDigit(s[i])

\* strconv.Atoi that takes decimal digits only
AtoiUnsigned(s) ==
    IF Len(s) > 0 /\ AllDigits(s) THEN [ok |-> TRUE, val |-> DigitsValue(s)]
    ELSE [ok |-> FALSE, val |-> 0]

\* strconv.Atoi: an optional sign, then one or more decimal digits, nothing else
Atoi(s) ==
    LET signed == Len(s) > 0 /\ s[1] \in {"-", "+"}
        digits == IF signed THEN SubSeq(s, 2, Len(s)) ELSE s
    IN IF Len(digits) > 0 /\ AllDigits(digits)
       THEN [ok |-> TRUE,
             val |-> IF signed /\ s[1] = "-" THEN 0 - DigitsValue(digits)
                     ELSE DigitsValue(digits)]
       ELSE [ok |-> FALSE, val |-> 0]

\* d: the digits after the sign
AtoiWideDigits(neg, d) ==
    IF Len(d) > 0 /\ AllDigits(d) /\ FitsInt64(neg, StripZeros(d))
    THEN [ok |-> TRUE, val |-> Wide(neg /\ StripZeros(d) # <<"0">>, StripZeros(d))]
    ELSE [ok |-> FALSE, val |-> Wide(FALSE, <<"0">>)]

\* strconv.Atoi with a wide int as value: out of range is an error
AtoiWide(s) ==
    IF Len(s) > 0 /\ s[1] \in {"-", "+"} THEN AtoiWideDigits(s[1] = "-", Tail(s))
    ELSE AtoiWideDigits(FALSE, s)

(***************************************************************************)
(* time.Time: the wall-clock instant and whether the value carries a       *)
(* monotonic reading.  The text encoding stands for RFC 3339: its length   *)
(* varies with the value, it ends in "Z", and it is parsed as a whole.     *)
(***************************************************************************)
ZeroTime == [ns |-> 0, mono |-> FALSE]

MarshalText(t) == NatDigits(t.ns) \o <<"Z">>

\* UnmarshalText that parses nothing
UnmarshalTextNothing(s) == [ok |-> FALSE, val |-> ZeroTime]

UnmarshalText(s) ==
    IF Len(s) >= 2 /\ s[Len(s)] = "Z" /\ AllDigits(SubSeq(s, 1, Len(s) - 1))
    THEN [ok |-> TRUE,
          val |-> [ns |-> DigitsValue(SubSeq(s, 1, Len(s) - 1)), mono |-> FALSE]]
    ELSE [ok |-> FALSE, val |-> ZeroTime]

\* Time.Equal and Time.After: the instants are compared
TimeEqual(t, u) == t.ns = u.ns
TimeAfter(t, u) == t.ns > u.ns

(***************************************************************************)
(* fmt.Fscanf(f, "%d,%d,%d\n", &seqNum, &offset, &size) on the header      *)
(* file.  p is the index of the next unread character.  The header file    *)
(* the store writes holds digits, "-", "," and newlines only.              *)
(***************************************************************************)
RECURSIVE DigitRunEnd(_, _)
DigitRunEnd(s, p) ==
    IF p <= Len(s) /\ IsDigit(s[p]) THEN DigitRunEnd(s, p + 1) ELSE p

\* verb %d: no input left and a newline are errors; an optional sign, then digits
ScanInt(s, p) ==
    IF p > Len(s) \/ s[p] = "\n" THEN [ok |-> FALSE, val |-> 0, p |-> p]
    ELSE LET signed == s[p] \in {"-", "+"}
             q == IF signed THEN p + 1 ELSE p
             e == DigitRunEnd(s, q)
         IN IF e = q THEN [ok |-> FALSE, val |-> 0, p |-> p]
            ELSE [ok |-> TRUE,
                  val |-> IF signed /\ s[p] = "-"
                          THEN 0 - DigitsValue(SubSeq(s, q, e - 1))
                          ELSE DigitsValue(SubSeq(s, q, e - 1)),
                  p |-> e]

\* a literal of the format must be the next character
ScanLiteral(s, p, c) == p <= Len(s) /\ s[p] = c

ScanFailed == [ok |-> FALSE, seqNum |-> 0, offset |-> 0, size |-> 0, p |-> 0]

\* after the third number c: the newline of the format matches a newline or
\* the end of the input
FscanfNewline(s, a, b, c) ==
    IF ~c.ok THEN ScanFailed
    ELSE IF c.p <= Len(s) /\ s[c.p] # "\n" THEN ScanFailed
    ELSE [ok |-> TRUE, seqNum |-> a.val, offset |-> b.val, size |-> c.val,
          p |-> IF c.p <= Len(s) THEN c.p + 1 ELSE c.p]

\* after the second number b
FscanfSize(s, a, b) ==
    IF ~b.ok \/ ~ScanLiteral(s, b.p, ",") THEN ScanFailed
    ELSE FscanfNewline(s, a, b, ScanInt(s, b.p + 1))

\* after the first number a
FscanfOffset(s, a) ==
    IF ~a.ok \/ ~ScanLiteral(s, a.p, ",") THEN ScanFailed
    ELSE FscanfSize(s, a, ScanInt(s, a.p + 1))

\* one call: ok iff err == nil && cnt == 3
Fscanf(s, p) == FscanfOffset(s, ScanInt(s, p))

\* m[k] = v, for a map held as a function
Put(m, k, v) == [x \in (DOMAIN m) \cup {k} |-> IF x = k THEN v ELSE m[x]]

EmptyMap == [x \in {} |-> 0]

\* the loop of populateCache: every scanned line is stored into the map it is
\* given, and the first call that fails ends the loop
RECURSIVE ScanHeader(_, _, _)
ScanHeaderStore(s, r, offs) ==
    IF ~r.ok THEN offs
    ELSE ScanHeader(s, r.p, Put(offs, r.seqNum, [offset |-> r.offset, size |-> r.size]))

ScanHeader(s, p, offs) == ScanHeaderStore(s, Fscanf(s, p), offs)

(***************************************************************************)
(* Files.                                                                  *)
(***************************************************************************)
NoFile == [exists |-> FALSE, data |-> <<>>, synced |-> <<>>]
NewFile == [exists |-> TRUE, data |-> <<>>, synced |-> <<>>]

\* File.Write of bytes at position pos (pos <= length): overwrites, then extends
WriteAt(data, pos, bytes) ==
    [i \in 1..(IF pos + Len(bytes) > Len(data) THEN pos + Len(bytes) ELSE Len(data)) |->
        IF i > pos /\ i <= pos + Len(bytes) THEN bytes[i - pos] ELSE data[i]]

\* the file f of world w after a write of bytes at pos
FileWrite(w, f, pos, bytes) ==
    [w EXCEPT !.fs[f].data = WriteAt(w.fs[f].data, pos, bytes)]

\* File.Sync
FileSync(w, f) == [w EXCEPT !.fs[f].synced = w.fs[f].data]

\* The world carries the steps that fail during the operation: fail is a set
\* of pairs <<kind, file>>, kind being "open", "seek", "write" or "sync" (and
\* <<"mkdir", "dir">> for os.MkdirAll); failed records that such a step was
\* reached.  A write that fails writes nothing.
Fails(w, kind, f) == <<kind, f>> \in w.fail

Hit(w) == [w EXCEPT !.failed = TRUE]

\* openOrCreateFile: opens the file, creating it empty when it does not exist
openOrCreateFile(w, f) ==
    [w EXCEPT !.fs[f] = IF w.fs[f].exists THEN w.fs[f] ELSE NewFile,
              !.open = w.open \cup {f}]

\* removeFile: a file that does not exist is no error
removeFile(w, f) == [w EXCEPT !.fs[f] = NoFile]

(***************************************************************************)
(* memoryStore, the cache: creation time and the two next sequence         *)
(* numbers.  Set overwrites, Incr adds one, Reset reads the clock.         *)
(***************************************************************************)
ZeroCache == [creationTime |-> ZeroTime, nextSender |-> 1, nextTarget |-> 1]

\* time.Now(): the wall clock, with a monotonic reading
Now(w) == [ns |-> w.clock, mono |-> TRUE]

\* cache.Reset(); the clock has moved on by the next time it is read
cacheReset(w) ==
    [w EXCEPT !.cache = [creationTime |-> Now(w), nextSender |-> 1, nextTarget |-> 1],
              !.clock = w.clock + 1]

cacheSetNextSender(w, next) == [w EXCEPT !.cache.nextSender = next]
cacheSetNextTarget(w, next) == [w EXCEPT !.cache.nextTarget = next]
cacheIncrNextSender(w) == [w EXCEPT !.cache.nextSender = w.cache.nextSender + 1]
cacheIncrNextTarget(w) == [w EXCEPT !.cache.nextTarget = w.cache.nextTarget + 1]

(***************************************************************************)
(* The operations of fileStore, as functions of the world w: the store's   *)
(* fields (cache, offsets, open: the files whose handle is not nil), the   *)
(* files (fs) and the clock.  An operation yields the world it leaves and  *)
(* what it returns: err is "nil", "error" or, when it panics, "panic".     *)
(***************************************************************************)
Ret(w, err) == [w |-> w, err |-> err]

NextSenderMsgSeqNum(w) == w.cache.nextSender
NextTargetMsgSeqNum(w) == w.cache.nextTarget
CreationTime(w) == w.cache.creationTime

\* Close that also empties the index
CloseAndClear(w) == Ret([w EXCEPT !.open = {}, !.offsets = EmptyMap], "nil")

\* closeFile on each handle, then the handles are nil
Close(w) == Ret([w EXCEPT !.open = {}], "nil")

\* f.Sync() after a write, the last step of setSession and setSeqNum
SyncWritten(w, f) ==
    IF Fails(w, "sync", f) THEN Ret(Hit(w), "error") ELSE Ret(FileSync(w, f), "nil")

\* Seek(0), the creation time as text, Sync
setSession(w) ==
    IF session \notin w.open THEN Ret(w, "error")
    ELSE IF Fails(w, "seek", session) \/ Fails(w, "write", session)
    THEN Ret(Hit(w), "error")
    ELSE SyncWritten(FileWrite(w, session, 0, MarshalText(CreationTime(w))), session)

\* Seek(0), "%019d", Sync.  With a nil handle Seek fails and the error message
\* is built from f.Name(), which dereferences the nil handle.
setSeqNum(w, f, seqNum) ==
    IF f \notin w.open THEN Ret(w, "panic")
    ELSE IF Fails(w, "seek", f) \/ Fails(w, "write", f) THEN Ret(Hit(w), "error")
    ELSE SyncWritten(FileWrite(w, f, 0, Format019d(seqNum)), f)

\* setSeqNum of a wide int
setSeqNumWide(w, f, seqNum) ==
    IF f \notin w.open THEN Ret(w, "panic")
    ELSE IF Fails(w, "seek", f) \/ Fails(w, "write", f) THEN Ret(Hit(w), "error")
    ELSE SyncWritten(FileWrite(w, f, 0, Format019dWide(seqNum)), f)

\* SetNext*MsgSeqNum of a wide int
SetNextSenderMsgSeqNumWide(w, next) ==
    setSeqNumWide(cacheSetNextSender(w, next), senderseqnums, next)

SetNextTargetMsgSeqNumWide(w, next) ==
    setSeqNumWide(cacheSetNextTarget(w, next), targetseqnums, next)

\* r: what setSeqNum returned; the cache is set only when it returned no error
SenderCachedAfter(r, next) ==
    IF r.err = "nil" THEN Ret(cacheSetNextSender(r.w, next), "nil") ELSE r

\* SetNextSenderMsgSeqNum that writes the file first and the cache afterwards
SetNextSenderMsgSeqNumFileFirst(w, next) ==
    SenderCachedAfter(setSeqNum(w, senderseqnums, next), next)

SetNextSenderMsgSeqNum(w, next) ==
    setSeqNum(cacheSetNextSender(w, next), senderseqnums, next)

\* SetNextTargetMsgSeqNum updating the other counter of the cache
SetNextTargetMsgSeqNumOtherCounter(w, next) ==
    setSeqNum(cacheSetNextSender(w, next), targetseqnums, next)

SetNextTargetMsgSeqNum(w, next) ==
    setSeqNum(cacheSetNextTarget(w, next), targetseqnums, next)

\* IncrNextSenderMsgSeqNum incrementing the other counter of the cache
IncrNextSenderMsgSeqNumOtherCounter(w) ==
    LET c == cacheIncrNextTarget(w)
    IN setSeqNum(c, senderseqnums, NextSenderMsgSeqNum(c))

IncrNextSenderMsgSeqNum(w) ==
    LET c == cacheIncrNextSender(w)
    IN setSeqNum(c, senderseqnums, NextSenderMsgSeqNum(c))

\* IncrNextTargetMsgSeqNum writing the file of the other counter
IncrNextTargetMsgSeqNumOtherFile(w) ==
    LET c == cacheIncrNextTarget(w)
    IN setSeqNum(c, senderseqnums, NextTargetMsgSeqNum(c))

IncrNextTargetMsgSeqNum(w) ==
    LET c == cacheIncrNextTarget(w)
    IN setSeqNum(c, targetseqnums, NextTargetMsgSeqNum(c))

\* the header line "%d,%d,%d\n"
HeaderLine(seqNum, offset, size) ==
    FormatD(seqNum) \o <<",">> \o FormatD(offset) \o <<",">> \o FormatD(size) \o <<"\n">>

\* SaveMessage that does not seek to the end of the body file
SaveMessageNoSeek(w, seqNum, msg) ==
    IF body \notin w.open \/ header \notin w.open THEN Ret(w, "error")
    ELSE LET offset == 0
             w1 == FileWrite(w, header, Len(w.fs[header].data),
                             HeaderLine(seqNum, offset, Len(msg)))
             w2 == [w1 EXCEPT !.offsets =
                        Put(w.offsets, seqNum, [offset |-> offset, size |-> Len(msg)])]
             w3 == FileWrite(w2, body, offset, msg)
         IN Ret(FileSync(FileSync(w3, body), header), "nil")

\* SaveMessage that does not flush the header file
SaveMessageNoHeaderSync(w, seqNum, msg) ==
    IF body \notin w.open \/ header \notin w.open THEN Ret(w, "error")
    ELSE LET offset == Len(w.fs[body].data)
             w1 == FileWrite(w, header, Len(w.fs[header].data),
                             HeaderLine(seqNum, offset, Len(msg)))
             w2 == [w1 EXCEPT !.offsets =
                        Put(w.offsets, seqNum, [offset |-> offset, size |-> Len(msg)])]
             w3 == FileWrite(w2, body, offset, msg)
         IN Ret(FileSync(w3, body), "nil")

\* the end of SaveMessage: both files are flushed, the body file first
SaveMessageSync(w) ==
    IF Fails(w, "sync", body) THEN Ret(Hit(w), "error")
    ELSE SyncWritten(FileSync(w, body), header)

\* w: the header line is written and the index entry is stored
SaveMessageBody(w, offset, msg) ==
    IF Fails(w, "write", body) THEN Ret(Hit(w), "error")
    ELSE SaveMessageSync(FileWrite(w, body, offset, msg))

SaveMessage(w, seqNum, msg) ==
    IF body \notin w.open \/ header \notin w.open THEN Ret(w, "error")
    ELSE IF Fails(w, "seek", body) \/ Fails(w, "seek", header) \/ Fails(w, "write", header)
    THEN Ret(Hit(w), "error")
    ELSE LET offset == Len(w.fs[body].data)
             w1 == FileWrite(w, header, Len(w.fs[header].data),
                             HeaderLine(seqNum, offset, Len(msg)))
         IN SaveMessageBody(
                [w1 EXCEPT !.offsets =
                     Put(w.offsets, seqNum, [offset |-> offset, size |-> Len(msg)])],
                offset, msg)

\* msg is what bodyFile.ReadAt(make([]byte, size), offset) reads
getMessage(w, seqNum) ==
    IF seqNum \notin DOMAIN w.offsets
    THEN [msg |-> <<>>, found |-> FALSE, err |-> "nil"]
    ELSE LET msgInfo == w.offsets[seqNum]
             data == w.fs[body].data
         IN IF msgInfo.size < 0 THEN [msg |-> <<>>, found |-> TRUE, err |-> "panic"]
            ELSE IF body \notin w.open \/ msgInfo.offset < 0
            THEN [msg |-> <<>>, found |-> TRUE, err |-> "error"]
            ELSE IF msgInfo.size = 0 THEN [msg |-> <<>>, found |-> TRUE, err |-> "nil"]
            ELSE IF msgInfo.offset + msgInfo.size > Len(data)
            THEN [msg |-> <<>>, found |-> TRUE, err |-> "error"]
            ELSE [msg |-> SubSeq(data, msgInfo.offset + 1, msgInfo.offset + msgInfo.size),
                  found |-> TRUE, err |-> "nil"]

\* the loop of GetMessages from seqNum on, msgs being what it has appended
RECURSIVE GetMessagesFrom(_, _, _, _)
GetMessagesFrom(w, seqNum, endSeqNum, msgs) ==
    IF seqNum > endSeqNum THEN [msgs |-> msgs, err |-> "nil"]
    ELSE LET r == getMessage(w, seqNum)
         IN IF r.err # "nil" THEN [msgs |-> <<>>, err |-> r.err]
            ELSE GetMessagesFrom(w, seqNum + 1, endSeqNum,
                                 IF r.found THEN Append(msgs, r.msg) ELSE msgs)

GetMessages(w, beginSeqNum, endSeqNum) ==
    GetMessagesFrom(w, beginSeqNum, endSeqNum, <<>>)

\* populateCache that reads the sender counter file for both counters
populateCacheOneCounter(w) ==
    LET offs == IF w.fs[header].exists
                THEN ScanHeader(w.fs[header].data, 1, w.offsets)
                ELSE w.offsets
        ctime == UnmarshalText(w.fs[session].data)
        populated == w.fs[session].exists /\ ctime.ok
        sender == Atoi(w.fs[senderseqnums].data)
    IN [w |-> [w EXCEPT
                 !.offsets = offs,
                 !.cache.creationTime = IF populated THEN ctime.val ELSE @,
                 !.cache.nextSender =
                     IF w.fs[senderseqnums].exists /\ sender.ok THEN sender.val ELSE @,
                 !.cache.nextTarget =
                     IF w.fs[senderseqnums].exists /\ sender.ok THEN sender.val ELSE @],
        creationTimePopulated |-> populated]

\* populateCache reads the files by name; a file that is missing or does not
\* parse leaves the cache as it is.  The scanned header lines are stored into
\* store.offsets as it is.
populateCache(w) ==
    LET offs == IF w.fs[header].exists
                THEN ScanHeader(w.fs[header].data, 1, w.offsets)
                ELSE w.offsets
        ctime == UnmarshalText(w.fs[session].data)
        populated == w.fs[session].exists /\ ctime.ok
        sender == Atoi(w.fs[senderseqnums].data)
        target == Atoi(w.fs[targetseqnums].data)
    IN [w |-> [w EXCEPT
                 !.offsets = offs,
                 !.cache.creationTime = IF populated THEN ctime.val ELSE @,
                 !.cache.nextSender =
                     IF w.fs[senderseqnums].exists /\ sender.ok THEN sender.val ELSE @,
                 !.cache.nextTarget =
                     IF w.fs[targetseqnums].exists /\ target.ok THEN target.val ELSE @],
        creationTimePopulated |-> populated]

\* the order in which Refresh opens the files
OpenOrder == <<body, header, session, senderseqnums, targetseqnums>>

\* the openOrCreateFile calls from the i-th on: the first that fails ends Refresh
RECURSIVE OpenFrom(_, _)
OpenFrom(w, i) ==
    IF i > Len(OpenOrder) THEN Ret(w, "nil")
    ELSE IF Fails(w, "open", OpenOrder[i]) THEN Ret(Hit(w), "error")
    ELSE OpenFrom(openOrCreateFile(w, OpenOrder[i]), i + 1)

\* the five openOrCreateFile calls
OpenAll(w) == OpenFrom(w, 1)

\* the end of Refresh: both counters are written again, and what the two Set
\* calls return is dropped
RefreshTarget(w) == Ret(SetNextTargetMsgSeqNum(w, NextTargetMsgSeqNum(w)).w, "nil")

\* the end of Refresh writing the sender counter one too high
RefreshSenderPlusOne(w) ==
    RefreshTarget(SetNextSenderMsgSeqNum(w, NextSenderMsgSeqNum(w) + 1).w)

RefreshSender(w) == RefreshTarget(SetNextSenderMsgSeqNum(w, NextSenderMsgSeqNum(w)).w)

\* ss: what setSession returned, when it was called
RefreshCounters(ss) == IF ss.err # "nil" THEN ss ELSE RefreshSender(ss.w)

\* w: the files are open
RefreshSession(w, creationTimePopulated) ==
    RefreshCounters(IF creationTimePopulated THEN Ret(w, "nil") ELSE setSession(w))

\* o: what opening the files returned
RefreshOpened(o, creationTimePopulated) ==
    IF o.err # "nil" THEN o ELSE RefreshSession(o.w, creationTimePopulated)

\* pc: what populateCache returned
RefreshOpen(pc) == RefreshOpened(OpenAll(pc.w), pc.creationTimePopulated)

Refresh(w) == RefreshOpen(populateCache(Close(cacheReset(w)).w))

\* the removals of Reset without the one of the sender counter's file
RemoveAllButSender(w) ==
    removeFile(removeFile(removeFile(
        removeFile(w, body), header), session), targetseqnums)

\* the removals of Reset without the one of the session file
RemoveAllButSession(w) ==
    removeFile(removeFile(removeFile(
        removeFile(w, body), header), senderseqnums), targetseqnums)

RemoveAll(w) ==
    removeFile(removeFile(removeFile(removeFile(
        removeFile(w, body), header), session), senderseqnums), targetseqnums)

Reset(w) == Refresh(RemoveAll(Close(cacheReset(w)).w))

\* a new store: an empty index, a zero cache, no handle; then Refresh
newFileStore(w) ==
    IF Fails(w, "mkdir", "dir") THEN Ret(Hit(w), "error")
    ELSE Refresh([w EXCEPT !.dir = TRUE,
                           !.cache = ZeroCache, !.offsets = EmptyMap, !.open = {}])

\* the key of the session settings that names the directory
FileStorePath == "FileStorePath"

\* fileStoreFactory.Create that does not look for the setting
fileStoreFactoryCreateAnySettings(w, sessionSettings) == newFileStore(w)

\* fileStoreFactory.Create: without the setting there is no store
fileStoreFactoryCreate(w, sessionSettings) ==
    IF FileStorePath \notin DOMAIN sessionSettings THEN Ret(w, "error")
    ELSE newFileStore(w)

(***************************************************************************)
(* The stores kept in a database, as far as the counters go.  sqlStore and *)
(* mongoStore hold a memoryStore as cache (nextSender, nextTarget); the    *)
(* database holds the session's record (exists, incoming, outgoing).       *)
(* store: "open" for a store with its connection, "closed" after Close,    *)
(* "none" when the process holds no store.  loaded holds from a Create,    *)
(* Refresh or Reset that returned no error on, while only Set and Incr     *)
(* calls follow.  The messages and the creation time are left out.         *)
(* ok, fail: whether a statement sent to the database succeeds, and the    *)
(* statement that fails.                                                   *)
(***************************************************************************)
NoDB ==
    [kind |-> "none", store |-> "none", loaded |-> FALSE, nextSender |-> 0,
     nextTarget |-> 0, exists |-> FALSE, incoming |-> 0, outgoing |-> 0]

\* a database without the session's record, and no store
NoStore(kind) == [NoDB EXCEPT !.kind = kind]

\* the process holds no store: what is left is the record
Gone(d) ==
    [d EXCEPT !.store = "none", !.loaded = FALSE, !.nextSender = 0, !.nextTarget = 0]

\* cache.Reset(), as far as the counters go
dbCacheReset(d) == [d EXCEPT !.nextSender = 1, !.nextTarget = 1, !.loaded = FALSE]

\* the cache takes the counters of the record
dbCacheLoad(d) ==
    [d EXCEPT !.nextTarget = d.incoming, !.nextSender = d.outgoing, !.loaded = TRUE]

\* the record is inserted with the counters of the cache
dbInsert(d) ==
    [d EXCEPT !.exists = TRUE, !.incoming = d.nextTarget, !.outgoing = d.nextSender,
              !.loaded = TRUE]

\* SELECT: a record found is loaded, an error other than ErrNoRows is returned,
\* and without a record one is inserted
sqlStorePopulateCache(d, fail) ==
    IF fail = "query" THEN Ret(d, "error")
    ELSE IF d.exists THEN Ret(dbCacheLoad(d), "nil")
    ELSE IF fail = "insert" THEN Ret(d, "error")
    ELSE Ret(dbInsert(d), "nil")

\* cache.Reset(), sql.Open and Ping, populateCache
newSQLStore(d, fail) ==
    IF fail = "open" THEN Ret(dbCacheReset(d), "error")
    ELSE sqlStorePopulateCache([dbCacheReset(d) EXCEPT !.store = "open"], fail)

SQLStoreDriver == "SQLStoreDriver"
SQLStoreDataSourceName == "SQLStoreDataSourceName"
SQLStoreConnMaxLifetime == "SQLStoreConnMaxLifetime"

\* unitMap of package time: the nanoseconds of each unit, as a factor and a
\* count of decimal zeros (1h = 36 * 10^11 ns); the microsecond is spelled
\* with "u", with U+00B5 or with U+03BC
DurationUnits ==
    <<"n", "s">> :> <<1, 0>> @@ <<"u", "s">> :> <<1, 3>> @@ <<"µ", "s">> :> <<1, 3>> @@
    <<"μ", "s">> :> <<1, 3>> @@ <<"m", "s">> :> <<1, 6>> @@ <<"s">> :> <<1, 9>> @@
    <<"m">> :> <<6, 10>> @@ <<"h">> :> <<36, 11>>

\* the digits of d * k + carry, for a small k
RECURSIVE DigitsTimes(_, _, _)
DigitsTimes(d, k, carry) ==
    IF d = <<>> THEN NatDigits(carry)
    ELSE DigitsTimes(SubSeq(d, 1, Len(d) - 1), k,
                     (DigitVal(d[Len(d)]) * k + carry) \div 10)
         \o <<DigitChars[((DigitVal(d[Len(d)]) * k + carry) % 10) + 1]>>

\* the digits of a + b + carry
RECURSIVE DigitsAdd(_, _, _)
DigitsAdd(a, b, carry) ==
    IF a = <<>> /\ b = <<>> THEN NatDigits(carry)
    ELSE LET t == (IF a = <<>> THEN 0 ELSE DigitVal(a[Len(a)]))
                  + (IF b = <<>> THEN 0 ELSE DigitVal(b[Len(b)])) + carry
         IN DigitsAdd(SubSeq(a, 1, Len(a) - 1), SubSeq(b, 1, Len(b) - 1), t \div 10)
            \o <<DigitChars[(t % 10) + 1]>>

\* leadingFraction of package time on the digits s[p..q-1] after the point:
\* the digits taken for the number x, which also count for scale = 10^n;
\* from the first digit that would take x above 2^63 on, the digits are
\* dropped
leadingFraction(s, p, q) ==
    SubSeq(s, p, p - 1 + CHOOSE n \in 0..(q - p) :
                     /\ FitsInt64(TRUE, StripZeros(SubSeq(s, p, p + n - 1)))
                     /\ n < q - p => ~FitsInt64(TRUE, StripZeros(SubSeq(s, p, p + n))))

\* uint64(float64(f) * (float64(unit) / scale)) of time.ParseDuration, the
\* nanoseconds of the fraction with the digits f in a unit of
\* unit[1] * 10^unit[2] nanoseconds, where scale is 1 multiplied by 10 once
\* for each digit of f.  A float64 is held as a whole number m and an
\* exponent e, for m * 2^e; every product and the quotient are rounded to 53
\* bits, to the nearest and on a tie to the even one, as the arithmetic of
\* float64 rounds them.  The whole numbers are held as limbs of four decimal
\* digits, the most significant first.  A fraction of 32 digits or more
\* starts with 13 zeros or more, because f is 2^63 at most: it is below
\* 10^-13 of a unit of 36 * 10^11 nanoseconds at most, and the product is
\* below 1.
fractionNanoseconds(f, unit) ==
    LET Base == 10000
        TwoTo53 == <<9007, 1992, 5474, 992>>
        Limbs(a) ==
            [i \in 1..((Len(a) + 3) \div 4) |->
                LET ones == Len(a) - 4 * (((Len(a) + 3) \div 4) - i)
                    Digit(j) == IF ones - j >= 1 THEN DigitVal(a[ones - j]) ELSE 0
                IN Digit(0) + 10 * Digit(1) + 100 * Digit(2) + 1000 * Digit(3)]
        Digits(a) ==
            [p \in 1..(4 * Len(a)) |->
                DigitChars[((a[(p + 3) \div 4] \div (10 ^ (3 - ((p - 1) % 4)))) % 10) + 1]]
        \* a without its leading limbs of 0
        Strip(a) ==
            IF \A i \in 1..Len(a) : a[i] = 0 THEN <<0>>
            ELSE SubSeq(a, CHOOSE i \in 1..Len(a) :
                               a[i] # 0 /\ \A j \in 1..(i - 1) : a[j] = 0, Len(a))
        Leq(a, b) ==
            \/ Len(Strip(a)) < Len(Strip(b))
            \/ /\ Len(Strip(a)) = Len(Strip(b))
               /\ \A i \in 1..Len(Strip(a)) :
                      Strip(a)[i] > Strip(b)[i] =>
                          \E j \in 1..(i - 1) : Strip(a)[j] < Strip(b)[j]
        Odd(a) == a[Len(a)] % 2 = 1
        \* a * k + carry, for k up to 2^15
        RECURSIVE Times(_, _, _)
        Times(a, k, carry) ==
            IF a = <<>> THEN <<carry \div Base, carry % Base>>
            ELSE Times(SubSeq(a, 1, Len(a) - 1), k, (a[Len(a)] * k + carry) \div Base)
                 \o <<(a[Len(a)] * k + carry) % Base>>
        \* a + b + carry
        RECURSIVE Add(_, _, _)
        Add(a, b, carry) ==
            IF a = <<>> /\ b = <<>> THEN <<carry>>
            ELSE LET x == (IF a = <<>> THEN 0 ELSE a[Len(a)])
                          + (IF b = <<>> THEN 0 ELSE b[Len(b)]) + carry
                 IN Add(SubSeq(a, 1, Len(a) - 1), SubSeq(b, 1, Len(b) - 1), x \div Base)
                    \o <<x % Base>>
        \* a - b - borrow, for a >= b
        RECURSIVE Sub(_, _, _)
        Sub(a, b, borrow) ==
            IF a = <<>> THEN <<>>
            ELSE LET x == a[Len(a)] - (IF b = <<>> THEN 0 ELSE b[Len(b)]) - borrow
                 IN Sub(SubSeq(a, 1, Len(a) - 1), SubSeq(b, 1, Len(b) - 1),
                        IF x < 0 THEN 1 ELSE 0)
                    \o <<(x + Base) % Base>>
        \* the quotient and the remainder of a by k, for k up to 2^15, with
        \* the remainder carry of the limbs before
        RECURSIVE ShortDiv(_, _, _)
        ShortDiv(a, k, carry) ==
            IF a = <<>> THEN [quo |-> <<>>, rem |-> carry]
            ELSE LET rest == ShortDiv(Tail(a), k, (carry * Base + a[1]) % k)
                 IN [quo |-> <<(carry * Base + a[1]) \div k>> \o rest.quo, rem |-> rest.rem]
        \* acc * Base^Len(b) + a * b
        RECURSIVE Mul(_, _, _)
        Mul(a, b, acc) ==
            IF b = <<>> \/ acc = <<>> THEN acc
            ELSE Mul(a, Tail(b), Strip(Add(acc \o <<0>>, Times(a, b[1], 0), 0)))
        \* a * 2^n and a \div 2^n, 15 bits at a time
        RECURSIVE Shl(_, _)
        Shl(a, n) ==
            IF n <= 0 \/ a = <<0>> THEN a
            ELSE Shl(Strip(Times(a, 2 ^ (IF n < 15 THEN n ELSE 15), 0)), n - 15)
        RECURSIVE Shr(_, _)
        Shr(a, n) ==
            IF n <= 0 \/ a = <<0>> THEN a
            ELSE Shr(Strip(ShortDiv(a, 2 ^ (IF n < 15 THEN n ELSE 15), 0).quo), n - 15)
        \* the quotient and the remainder of a by b, a from its limb i on,
        \* with the remainder rem of the limbs before; the limb t of the
        \* quotient is found in two steps, its hundreds first
        RECURSIVE Div(_, _, _, _)
        Div(a, b, i, rem) ==
            IF i > Len(a) THEN [quo |-> <<>>, rem |-> rem]
            ELSE LET r == Strip(rem \o <<a[i]>>)
                     hundreds == CHOOSE h \in 0..99 :
                                     /\ Leq(Times(b, 100 * h, 0), r)
                                     /\ ~Leq(Times(b, 100 * (h + 1), 0), r)
                     t == CHOOSE x \in (100 * hundreds)..(100 * hundreds + 99) :
                              /\ Leq(Times(b, x, 0), r)
                              /\ ~Leq(Times(b, x + 1, 0), r)
                     rest == Div(a, b, i + 1, Strip(Sub(r, Times(b, t, 0), 0)))
                 IN [quo |-> <<t>> \o rest.quo, rem |-> rest.rem]
        \* n * 2^e rounded to 53 bits; sticky: a bit of 1 was dropped before.
        \* The bits above 2^68 are dropped 15 at a time, the rest in two
        \* steps: all but one, and the last, which decides the tie.
        RECURSIVE Round(_, _, _)
        Round(n, e, sticky) ==
            IF Leq(Times(TwoTo53, 2 ^ 15, 0), n)
            THEN LET r == ShortDiv(n, 2 ^ 15, 0)
                 IN Round(Strip(r.quo), e + 15, sticky \/ r.rem # 0)
            ELSE LET s == CHOOSE k \in 0..15 :
                              /\ ~Leq(Times(TwoTo53, 2 ^ k, 0), n)
                              /\ k > 0 => Leq(Times(TwoTo53, 2 ^ (k - 1), 0), n)
                     r == ShortDiv(n, 2 ^ (s - 1), 0)
                     m == Strip(ShortDiv(r.quo, 2, 0).quo)
                 IN IF s = 0 THEN [m |-> n, e |-> e]
                    ELSE [m |-> IF Odd(r.quo) /\ (sticky \/ r.rem # 0 \/ Odd(m))
                                THEN Strip(Add(m, <<1>>, 0)) ELSE m,
                          e |-> e + s]
        \* scale after k digits more
        RECURSIVE Scale(_, _)
        Scale(sc, k) ==
            IF k <= 0 \/ sc.e < 0 THEN sc
            ELSE Scale(Round(Strip(Times(sc.m, 10, 0)), sc.e, FALSE), k - 1)
        \* float64(unit) / scale, from the quotient of unit * 2^s by scale.m,
        \* for the least s that gives a quotient of 2^53 or more.  s is 1 at
        \* least and no exponent of scale or of float64(f) is negative: the
        \* tests of them below never fail, and have scale, s and float64(f)
        \* evaluated before the quotient and the product that use them.
        Shift(u, least) ==
            CHOOSE k \in 1..107 : Leq(least, Shl(u, k)) /\ ~Leq(least, Shl(u, k - 1))
        Rounded(quo, e) == Round(Strip(quo.quo), e, quo.rem # <<0>>)
        Quotient(u, scale, s) ==
            IF s <= 0 THEN scale
            ELSE Rounded(Div(Shl(u, s), scale.m, 1, <<0>>), 0 - s - scale.e)
        QuotientBy(u, scale) ==
            IF scale.e < 0 THEN scale
            ELSE Quotient(u, scale, Shift(u, Mul(scale.m, TwoTo53, <<0>>)))
        \* float64(f) * q
        Product(ff, q) ==
            IF ff.e < 0 \/ q.m = <<>> THEN ff
            ELSE Round(Mul(ff.m, q.m, <<0>>), ff.e + q.e, FALSE)
        \* uint64(x): x as a whole number, rounded down
        Whole(x) == IF x.e >= 0 THEN Shl(x.m, x.e) ELSE Shr(x.m, 0 - x.e)
    IN IF Len(f) >= 32 \/ \A i \in 1..Len(f) : f[i] = "0" THEN <<"0">>
       ELSE StripZeros(Digits(Whole(Product(
                Round(Strip(Limbs(f)), 0, FALSE),
                QuotientBy(Limbs(NatDigits(unit[1]) \o Zeros(unit[2])),
                           Scale([m |-> <<1>>, e |-> 0], Len(f)))))))

\* The loop of time.ParseDuration over s from p on, with the nanoseconds d
\* summed so far (a uint64, as digits): each part is digits, an optional
\* point and digits, and a unit, the characters up to the next digit or
\* point.  No digit on either side of the point, a number above 2^63
\* (leadingInt), an unknown unit, and a part or a sum above 2^63 nanoseconds
\* are errors; in the end the sum must be an int64 of the sign.
RECURSIVE DurationParts(_, _, _, _)
DurationParts(s, p, d, neg) ==
    IF p > Len(s) THEN FitsInt64(neg, StripZeros(d))
    ELSE LET e == DigitRunEnd(s, p)
             dot == e <= Len(s) /\ s[e] = "."
             q == IF dot THEN DigitRunEnd(s, e + 1) ELSE e
             i == CHOOSE j \in q..(Len(s) + 1) :
                      /\ \A k \in q..(j - 1) : ~IsDigit(s[k]) /\ s[k] # "."
                      /\ j <= Len(s) => (IsDigit(s[j]) \/ s[j] = ".")
         IN /\ FitsInt64(TRUE, StripZeros(SubSeq(s, p, e - 1)))
            /\ e > p \/ q > e + 1
            /\ SubSeq(s, q, i - 1) \in DOMAIN DurationUnits
            /\ LET unit == DurationUnits[SubSeq(s, q, i - 1)]
                   v == DigitsTimes(SubSeq(s, p, e - 1), unit[1], 0) \o Zeros(unit[2])
                   f == IF dot THEN leadingFraction(s, e + 1, q) ELSE <<>>
                   vf == DigitsAdd(v, fractionNanoseconds(f, unit), 0)
                   sum == StripZeros(DigitsAdd(d, vf, 0))
               IN /\ FitsInt64(TRUE, StripZeros(v))
                  /\ FitsInt64(TRUE, StripZeros(vf))
                  \* d += v wraps around at 2^64, the sum of 2^63 and 2^63
                  /\ IF sum = DigitsAdd(MinInt64Magnitude, MinInt64Magnitude, 0)
                     THEN DurationParts(s, i, <<>>, neg)
                     ELSE FitsInt64(TRUE, sum) /\ DurationParts(s, i, sum, neg)

\* time.ParseDuration returns no error: an optional sign, then "0" alone or
\* one part or more; the empty string is an error
ParseDurationOk(s) ==
    LET neg == s # <<>> /\ s[1] = "-"
        t == IF s # <<>> /\ s[1] \in {"-", "+"} THEN Tail(s) ELSE s
    IN t = <<"0">> \/ (t # <<>> /\ DurationParts(t, 1, <<>>, neg))

\* sqlStoreFactory.Create: the driver and the data source name are required,
\* and the connection lifetime, when given, must parse
sqlStoreFactoryCreate(d, sessionSettings, fail) ==
    IF SQLStoreDriver \notin DOMAIN sessionSettings THEN Ret(d, "error")
    ELSE IF SQLStoreDataSourceName \notin DOMAIN sessionSettings THEN Ret(d, "error")
    ELSE IF SQLStoreConnMaxLifetime \in DOMAIN sessionSettings
            /\ ~ParseDurationOk(sessionSettings[SQLStoreConnMaxLifetime])
    THEN Ret(d, "error")
    ELSE newSQLStore(d, fail)

\* DELETE of the messages, cache.Reset(), UPDATE of the record from the cache
sqlStoreReset(d, fail) ==
    IF d.store = "closed" THEN Ret(d, "panic")
    ELSE IF fail = "delete" THEN Ret(d, "error")
    ELSE IF fail = "update" THEN Ret(dbCacheReset(d), "error")
    ELSE Ret([dbCacheReset(d) EXCEPT !.incoming = 1, !.outgoing = 1, !.loaded = TRUE], "nil")

\* cache.Reset(), populateCache; the nil db of a closed store is dereferenced
sqlStoreRefresh(d, fail) ==
    IF d.store = "closed" THEN Ret(dbCacheReset(d), "panic")
    ELSE sqlStorePopulateCache(dbCacheReset(d), fail)

\* db.Close() and db = nil; nothing on a closed store
sqlStoreClose(d) == Ret([d EXCEPT !.store = "closed", !.loaded = FALSE], "nil")

\* UPDATE sessions SET outgoing_seqnum, then the cache
sqlStoreSetNextSenderMsgSeqNum(d, next, ok) ==
    IF d.store = "closed" THEN Ret(d, "panic")
    ELSE IF ~ok THEN Ret(d, "error")
    ELSE Ret([d EXCEPT !.outgoing = next, !.nextSender = next], "nil")

\* UPDATE sessions SET incoming_seqnum, then the cache
sqlStoreSetNextTargetMsgSeqNum(d, next, ok) ==
    IF d.store = "closed" THEN Ret(d, "panic")
    ELSE IF ~ok THEN Ret(d, "error")
    ELSE Ret([d EXCEPT !.incoming = next, !.nextTarget = next], "nil")

\* the cache is incremented, then the counter is set to what it holds
sqlStoreIncrNextSenderMsgSeqNum(d, ok) ==
    sqlStoreSetNextSenderMsgSeqNum([d EXCEPT !.nextSender = d.nextSender + 1],
                                   d.nextSender + 1, ok)

sqlStoreIncrNextTargetMsgSeqNum(d, ok) ==
    sqlStoreSetNextTargetMsgSeqNum([d EXCEPT !.nextTarget = d.nextTarget + 1],
                                   d.nextTarget + 1, ok)

\* Find(...).One: a record found is loaded, without one (ErrNotFound) it is
\* inserted, and another error is returned
mongoStorePopulateCache(d, fail) ==
    IF fail = "query" THEN Ret(d, "error")
    ELSE IF d.exists THEN Ret(dbCacheLoad(d), "nil")
    ELSE IF fail = "insert" THEN Ret(d, "error")
    ELSE Ret(dbInsert(d), "nil")

\* mgo.Dial, cache.Reset(), populateCache
newMongoStore(d, fail) ==
    IF fail = "open" THEN Ret(d, "error")
    ELSE mongoStorePopulateCache([dbCacheReset(d) EXCEPT !.store = "open"], fail)

mongoStoreFactoryCreate(d, fail) == newMongoStore(d, fail)

\* RemoveAll of the messages, cache.Reset(), Update of the record from the
\* cache; a closed session panics when it is used
mongoStoreReset(d, fail) ==
    IF d.store = "closed" THEN Ret(d, "panic")
    ELSE IF fail = "delete" THEN Ret(d, "error")
    ELSE IF fail = "update" THEN Ret(dbCacheReset(d), "error")
    ELSE Ret([dbCacheReset(d) EXCEPT !.incoming = 1, !.outgoing = 1, !.loaded = TRUE], "nil")

mongoStoreRefresh(d, fail) ==
    IF d.store = "closed" THEN Ret(dbCacheReset(d), "panic")
    ELSE mongoStorePopulateCache(dbCacheReset(d), fail)

\* dbCtx.Close()
mongoStoreClose(d) == Ret([d EXCEPT !.store = "closed", !.loaded = FALSE], "nil")

\* Update of the whole record, the other counter taken from the cache; then
\* the cache
mongoStoreSetNextSenderMsgSeqNum(d, next, ok) ==
    IF d.store = "closed" THEN Ret(d, "panic")
    ELSE IF ~ok THEN Ret(d, "error")
    ELSE Ret([d EXCEPT !.incoming = d.nextTarget, !.outgoing = next, !.nextSender = next],
             "nil")

mongoStoreSetNextTargetMsgSeqNum(d, next, ok) ==
    IF d.store = "closed" THEN Ret(d, "panic")
    ELSE IF ~ok THEN Ret(d, "error")
    ELSE Ret([d EXCEPT !.incoming = next, !.outgoing = d.nextSender, !.nextTarget = next],
             "nil")

mongoStoreIncrNextSenderMsgSeqNum(d, ok) ==
    mongoStoreSetNextSenderMsgSeqNum([d EXCEPT !.nextSender = d.nextSender + 1],
                                     d.nextSender + 1, ok)

mongoStoreIncrNextTargetMsgSeqNum(d, ok) ==
    mongoStoreSetNextTargetMsgSeqNum([d EXCEPT !.nextTarget = d.nextTarget + 1],
                                     d.nextTarget + 1, ok)

(***************************************************************************)
(* The state machine.  alive: the process holds a store.  last records the *)
(* operation that led to the state, what it returned and the counters and  *)
(* creation time it started from; saved[s] lists the messages that         *)
(* successful SaveMessage calls stored under s since the files were last   *)
(* removed; clean holds while the store, since it was created, has only    *)
(* seen successful SaveMessage, Set and Incr calls; born is the instant of  *)
(* the creation time the session got when a store was first created for it *)
(* or when it was last reset (0: no store was created yet); allok holds     *)
(* while every operation of the store, its creation included, has returned *)
(* no error.                                                               *)
(***************************************************************************)
W == [cache |-> cache, offsets |-> offsets, open |-> open, fs |-> fs, clock |-> clock,
      dir |-> dir, fail |-> {}, failed |-> FALSE]

\* the session settings Create is called with: all name the same directory
Settings ==
    {[k \in {} |-> ""],
     [k \in {"SocketAcceptPort"} |-> "5001"],
     [k \in {FileStorePath} |-> "dir"],
     [k \in {FileStorePath, "SocketAcceptPort"} |-> IF k = FileStorePath THEN "dir" ELSE "5001"]}

Ranges == RangeEnds \X RangeEnds

\* what the public reads of the store show
Obs(w) ==
    [sender |-> NextSenderMsgSeqNum(w),
     target |-> NextTargetMsgSeqNum(w),
     ctime |-> CreationTime(w),
     msgs |-> [r \in Ranges |-> GetMessages(w, r[1], r[2])]]

\* pre: what the operation started from, as far as it is about it.  run: the
\* number of Incr calls of one counter in a row since the store was created on
\* no files or reset, and -1 outside such a row.
Op(name, n, msg, err, pre, run) ==
    [op |-> name, n |-> n, msg |-> msg, err |-> err, pre |-> pre, run |-> run]

PreNone == [ctime |-> 0, sender |-> 0, target |-> 0]
PreTime == [PreNone EXCEPT !.ctime = CreationTime(W).ns]
PreSender == [PreNone EXCEPT !.sender = NextSenderMsgSeqNum(W)]
PreTarget == [PreNone EXCEPT !.target = NextTargetMsgSeqNum(W)]
PreAll == [ctime |-> CreationTime(W).ns, sender |-> NextSenderMsgSeqNum(W),
           target |-> NextTargetMsgSeqNum(W)]

NoFiles == \A f \in FileNames : ~fs[f].exists

RunOf(name) ==
    IF last.err = "nil" /\ last.run >= 0 /\ last.op \in {"Create", "Reset", name}
    THEN last.run + 1 ELSE 0 - 1

NoSaved == [s \in SeqNums |-> <<>>]

\* the world in which the steps of F fail
Inject(F) == [W EXCEPT !.fail = F]

\* fault: the steps that failed during the last operation
NoFault == {}

\* the state after an operation that returned r; kept: the process holds the
\* store afterwards
Outcome(r, kept) ==
    /\ alive' = kept
    /\ cache' = IF kept THEN r.w.cache ELSE ZeroCache
    /\ offsets' = IF kept THEN r.w.offsets ELSE EmptyMap
    /\ open' = IF kept THEN r.w.open ELSE {}
    /\ fs' = r.w.fs
    /\ clock' = r.w.clock
    /\ dir' = r.w.dir
    /\ fault' = IF r.w.failed THEN r.w.fail ELSE NoFault
    /\ nfaults' = IF r.w.failed THEN nfaults + 1 ELSE nfaults
    /\ db' = db

\* the store after a method that returned r: a panic ends the process
Apply(r) == Outcome(r, r.err # "panic")

\* an operation that returned r took place
Step(r, name, n, msg, pre, run) ==
    /\ Apply(r)
    /\ last' = Op(name, n, msg, r.err, pre, run)
    /\ born' = IF name = "Reset" THEN CreationTime(r.w).ns ELSE born
    /\ allok' = (allok /\ r.err = "nil")

\* a SaveMessage, Set or Incr call that returned r
Write(r, name, n, msg, pre, run) ==
    /\ Step(r, name, n, msg, pre, run)
    /\ clean' = (clean /\ r.err = "nil")

Saved(r, seqNum, msg) ==
    /\ r.err = "nil" => nsaves < MaxSaves
    /\ Write(r, "SaveMessage", seqNum, msg, PreNone, 0 - 1)
    /\ saved' = IF r.err = "nil" THEN [saved EXCEPT ![seqNum] = Append(@, msg)] ELSE saved
    /\ nsaves' = IF r.err = "nil" THEN nsaves + 1 ELSE nsaves

\* Create returns the store only when newFileStore returned no error
\* last.n: the number of FileStorePath entries of the settings
Created(r, n) ==
    /\ Outcome(r, r.err = "nil")
    /\ last' = Op("Create", n, <<>>, r.err, PreNone, IF NoFiles THEN 0 ELSE 0 - 1)
    /\ clean' = (r.err = "nil")
    /\ born' = IF born = 0 /\ r.err = "nil" THEN CreationTime(r.w).ns ELSE born
    /\ allok' = (r.err = "nil")

InitFiles ==
    /\ alive = FALSE
    /\ cache = ZeroCache
    /\ offsets = EmptyMap
    /\ open = {}
    /\ fs = [f \in FileNames |-> NoFile]
    /\ clock = 1
    /\ last = Op("none", 0, <<>>, "nil", PreNone, 0 - 1)
    /\ saved = NoSaved
    /\ nsaves = 0
    /\ clean = FALSE
    /\ fault = NoFault
    /\ nfaults = 0
    /\ dir = FALSE
    /\ born = 0
    /\ allok = FALSE

\* no store is created yet, of either kind
Init == InitFiles /\ db = NoDB

\* The calls, each with the set F of the steps that fail during it.

\* fileStoreFactory.Create, when the process holds no store or a closed one
CreateCall(F) ==
    /\ ~alive \/ open = {}
    /\ clock < MaxClock
    /\ \E sessionSettings \in Settings :
         Created(fileStoreFactoryCreate(Inject(F), sessionSettings),
                 IF FileStorePath \in DOMAIN sessionSettings THEN 1 ELSE 0)
    /\ UNCHANGED <<saved, nsaves>>

SaveMessageCall(F) ==
    /\ alive
    /\ \E seqNum \in SeqNums, msg \in Msgs :
         Saved(SaveMessage(Inject(F), seqNum, msg), seqNum, msg)

SetNextSenderMsgSeqNumCall(F) ==
    /\ alive
    /\ \E next \in NextArgs :
         Write(SetNextSenderMsgSeqNum(Inject(F), next), "SetNextSenderMsgSeqNum", next,
               <<>>, PreSender, 0 - 1)
    /\ UNCHANGED <<saved, nsaves>>

SetNextTargetMsgSeqNumCall(F) ==
    /\ alive
    /\ \E next \in NextArgs :
         Write(SetNextTargetMsgSeqNum(Inject(F), next), "SetNextTargetMsgSeqNum", next,
               <<>>, PreTarget, 0 - 1)
    /\ UNCHANGED <<saved, nsaves>>

IncrNextSenderMsgSeqNumCall(F) ==
    /\ alive
    /\ NextSenderMsgSeqNum(W) < MaxIncr
    /\ Write(IncrNextSenderMsgSeqNum(Inject(F)), "IncrNextSenderMsgSeqNum", 0, <<>>,
             PreSender, RunOf("IncrNextSenderMsgSeqNum"))
    /\ UNCHANGED <<saved, nsaves>>

IncrNextTargetMsgSeqNumCall(F) ==
    /\ alive
    /\ NextTargetMsgSeqNum(W) < MaxIncr
    /\ Write(IncrNextTargetMsgSeqNum(Inject(F)), "IncrNextTargetMsgSeqNum", 0, <<>>,
             PreTarget, RunOf("IncrNextTargetMsgSeqNum"))
    /\ UNCHANGED <<saved, nsaves>>

RefreshCall(F) ==
    /\ alive
    /\ clock < MaxClock
    /\ Step(Refresh(Inject(F)), "Refresh", 0, <<>>, PreTime, 0 - 1)
    /\ clean' = FALSE
    /\ UNCHANGED <<saved, nsaves>>

ResetCall(F) ==
    /\ alive
    /\ clock + 1 < MaxClock
    /\ Step(Reset(Inject(F)), "Reset", 0, <<>>, PreAll, 0)
    /\ saved' = NoSaved
    /\ clean' = FALSE
    /\ nsaves' = 0

\* the Set calls with a wide int
DoSetNextSenderMsgSeqNumWide ==
    /\ alive
    /\ \E next \in WideInts :
         Write(SetNextSenderMsgSeqNumWide(W, next), "SetNextSenderMsgSeqNum", next,
               <<>>, PreNone, 0 - 1)
    /\ UNCHANGED <<saved, nsaves>>

DoSetNextTargetMsgSeqNumWide ==
    /\ alive
    /\ \E next \in WideInts :
         Write(SetNextTargetMsgSeqNumWide(W, next), "SetNextTargetMsgSeqNum", next,
               <<>>, PreNone, 0 - 1)
    /\ UNCHANGED <<saved, nsaves>>

\* the calls during which no step fails
Create == CreateCall({})

DoSaveMessage == SaveMessageCall({})

DoSetNextSenderMsgSeqNum == SetNextSenderMsgSeqNumCall({})

DoSetNextTargetMsgSeqNum == SetNextTargetMsgSeqNumCall({})

DoIncrNextSenderMsgSeqNum == IncrNextSenderMsgSeqNumCall({})

DoIncrNextTargetMsgSeqNum == IncrNextTargetMsgSeqNumCall({})

DoRefresh == RefreshCall({})

DoReset == ResetCall({})

DoClose ==
    /\ alive
    /\ Step(Close(W), "Close", 0, <<>>, PreNone, 0 - 1)
    /\ clean' = FALSE
    /\ UNCHANGED <<saved, nsaves>>

\* the files after the process died: the files in keep hold what was written
\* to them, the others what was last flushed
CrashFiles(files, keep) ==
    [f \in FileNames |->
        IF f \in keep THEN [files[f] EXCEPT !.synced = files[f].data]
        ELSE [files[f] EXCEPT !.data = files[f].synced]]

Crash ==
    /\ alive
    /\ \E keep \in SUBSET {f \in FileNames : fs[f].data # fs[f].synced} :
         fs' = CrashFiles(fs, keep)
    /\ alive' = FALSE
    /\ cache' = ZeroCache
    /\ offsets' = EmptyMap
    /\ open' = {}
    /\ last' = Op("Crash", 0, <<>>, "nil", PreNone, 0 - 1)
    /\ clean' = FALSE
    /\ fault' = NoFault
    /\ allok' = FALSE
    /\ UNCHANGED <<clock, saved, nsaves, nfaults, dir, born, db>>

\* the steps that can fail, one at a time
Faults ==
    {{<<"mkdir", "dir">>}}
    \cup {{<<kind, f>>} : kind \in {"open", "seek", "write", "sync"}, f \in FileNames}

\* the calls during which a step fails
FailCreate == nfaults < MaxFaults /\ \E F \in Faults : (CreateCall(F) /\ fault' # NoFault)

FailSaveMessage == nfaults < MaxFaults /\ \E F \in Faults : (SaveMessageCall(F) /\ fault' # NoFault)

FailSetNextSenderMsgSeqNum ==
    nfaults < MaxFaults /\ \E F \in Faults : (SetNextSenderMsgSeqNumCall(F) /\ fault' # NoFault)

FailSetNextTargetMsgSeqNum ==
    nfaults < MaxFaults /\ \E F \in Faults : (SetNextTargetMsgSeqNumCall(F) /\ fault' # NoFault)

FailIncrNextSenderMsgSeqNum ==
    nfaults < MaxFaults /\ \E F \in Faults : (IncrNextSenderMsgSeqNumCall(F) /\ fault' # NoFault)

FailIncrNextTargetMsgSeqNum ==
    nfaults < MaxFaults /\ \E F \in Faults : (IncrNextTargetMsgSeqNumCall(F) /\ fault' # NoFault)

\* SaveMessage whose write to the body file fails: the header line is written
\* and the index entry stored, the message is not written
FailBodyWrite ==
    nfaults < MaxFaults /\ SaveMessageCall({<<"write", body>>}) /\ fault' # NoFault

FailRefresh == nfaults < MaxFaults /\ \E F \in Faults : (RefreshCall(F) /\ fault' # NoFault)

FailReset == nfaults < MaxFaults /\ \E F \in Faults : (ResetCall(F) /\ fault' # NoFault)

\* the files after the process died in SaveMessage while the header line was
\* written (line 287): the first n characters of the line are in the header file
TornHeader(files, seqNum, offset, size, n) ==
    LET torn == files[header].data \o SubSeq(HeaderLine(seqNum, offset, size), 1, n)
    IN [files EXCEPT ![header] = [exists |-> TRUE, data |-> torn, synced |-> torn]]

\* the process dies in a SaveMessage call, between the first and the last
\* character of the header line; what else was not flushed is lost
CrashInSaveMessage ==
    /\ alive
    /\ open = FileNames
    /\ nfaults < MaxFaults
    /\ \E seqNum \in SeqNums, msg \in Msgs :
         \E n \in 1..(Len(HeaderLine(seqNum, Len(fs[body].data), Len(msg))) - 1) :
            fs' = TornHeader(CrashFiles(fs, {}), seqNum, Len(fs[body].data), Len(msg), n)
    /\ alive' = FALSE
    /\ cache' = ZeroCache
    /\ offsets' = EmptyMap
    /\ open' = {}
    /\ last' = Op("Crash", 0, <<>>, "nil", PreNone, 0 - 1)
    /\ clean' = FALSE
    /\ fault' = NoFault
    /\ nfaults' = nfaults + 1
    /\ allok' = FALSE
    /\ UNCHANGED <<clock, saved, nsaves, dir, born, db>>

\* The calls on a store kept in a database (db.kind says which).  At first
\* the database has no record of the session and the process holds no store.
InitDB == InitFiles /\ db \in {NoStore("sql"), NoStore("mongo")}

\* the session settings sqlStoreFactory.Create is called with
DBSettings ==
    {[k \in {} |-> ""],
     [k \in {SQLStoreDriver} |-> "sqlite3"],
     [k \in {SQLStoreDataSourceName} |-> "db"],
     [k \in {SQLStoreDriver, SQLStoreDataSourceName} |-> "db"]}
    \cup {[k \in {SQLStoreDriver, SQLStoreDataSourceName, SQLStoreConnMaxLifetime} |->
               IF k = SQLStoreConnMaxLifetime THEN lifetime ELSE <<"d", "b">>] :
           lifetime \in {<<"1", "m", "5", "s">>, <<"s", "o", "o", "n">>,
                         <<"1", "µ", "s">>,
                         <<"2", "5", "6", "2", "0", "4", "8", "h">>}}

\* a call on the store kept in a database returned r; kept: the process holds
\* the store afterwards
DBCall(r, name, n, kept) ==
    /\ db' = IF kept THEN r.w ELSE Gone(r.w)
    /\ last' = Op(name, n, <<>>, r.err,
                  [ctime |-> 0, sender |-> db.nextSender, target |-> db.nextTarget], 0 - 1)
    /\ UNCHANGED <<alive, cache, offsets, open, fs, clock, saved, nsaves, clean,
                   fault, nfaults, dir, born, allok>>

\* a method of the store returned r: a panic ends the process
DBMethod(r, name, n) == DBCall(r, name, n, r.err # "panic")

\* the factory's Create, when the process holds no store or a closed one: the
\* process holds the store only when Create returned no error
\* last.n: whether the settings have what sqlStoreFactory.Create requires
DBCreate ==
    /\ db.store # "open"
    /\ \E fail \in {"none", "open", "query", "insert"} :
         IF db.kind = "sql"
         THEN \E sessionSettings \in DBSettings :
                DBCall(sqlStoreFactoryCreate(db, sessionSettings, fail), "Create",
                       IF {SQLStoreDriver, SQLStoreDataSourceName}
                              \subseteq DOMAIN sessionSettings
                       THEN 1 ELSE 0,
                       sqlStoreFactoryCreate(db, sessionSettings, fail).err = "nil")
         ELSE DBCall(mongoStoreFactoryCreate(db, fail), "Create", 1,
                     mongoStoreFactoryCreate(db, fail).err = "nil")

DBReset ==
    /\ db.store # "none"
    /\ \E fail \in {"none", "delete", "update"} :
         DBMethod(IF db.kind = "sql" THEN sqlStoreReset(db, fail)
                  ELSE mongoStoreReset(db, fail),
                  "Reset", 0)

DBRefresh ==
    /\ db.store # "none"
    /\ \E fail \in {"none", "query"} :
         DBMethod(IF db.kind = "sql" THEN sqlStoreRefresh(db, fail)
                  ELSE mongoStoreRefresh(db, fail),
                  "Refresh", 0)

DBClose ==
    /\ db.store # "none"
    /\ DBMethod(IF db.kind = "sql" THEN sqlStoreClose(db) ELSE mongoStoreClose(db),
                "Close", 0)

DBSetNextSenderMsgSeqNum ==
    /\ db.store # "none"
    /\ \E next \in NextArgs, ok \in BOOLEAN :
         DBMethod(IF db.kind = "sql" THEN sqlStoreSetNextSenderMsgSeqNum(db, next, ok)
                  ELSE mongoStoreSetNextSenderMsgSeqNum(db, next, ok),
                  "SetNextSenderMsgSeqNum", next)

DBSetNextTargetMsgSeqNum ==
    /\ db.store # "none"
    /\ \E next \in NextArgs, ok \in BOOLEAN :
         DBMethod(IF db.kind = "sql" THEN sqlStoreSetNextTargetMsgSeqNum(db, next, ok)
                  ELSE mongoStoreSetNextTargetMsgSeqNum(db, next, ok),
                  "SetNextTargetMsgSeqNum", next)

DBIncrNextSenderMsgSeqNum ==
    /\ db.store # "none"
    /\ db.nextSender < MaxIncr
    /\ \E ok \in BOOLEAN :
         DBMethod(IF db.kind = "sql" THEN sqlStoreIncrNextSenderMsgSeqNum(db, ok)
                  ELSE mongoStoreIncrNextSenderMsgSeqNum(db, ok),
                  "IncrNextSenderMsgSeqNum", 0)

DBIncrNextTargetMsgSeqNum ==
    /\ db.store # "none"
    /\ db.nextTarget < MaxIncr
    /\ \E ok \in BOOLEAN :
         DBMethod(IF db.kind = "sql" THEN sqlStoreIncrNextTargetMsgSeqNum(db, ok)
                  ELSE mongoStoreIncrNextTargetMsgSeqNum(db, ok),
                  "IncrNextTargetMsgSeqNum", 0)

Next ==
    \/ Create
    \/ DoSaveMessage
    \/ DoSetNextSenderMsgSeqNum
    \/ DoSetNextTargetMsgSeqNum
    \/ DoIncrNextSenderMsgSeqNum
    \/ DoIncrNextTargetMsgSeqNum
    \/ DoRefresh
    \/ DoReset
    \/ DoClose
    \/ Crash

Spec == Init /\ [][Next]_vars

\* stores that are written, closed or killed, and created again
NextReopen ==
    \/ Create
    \/ DoSaveMessage
    \/ DoSetNextSenderMsgSeqNum
    \/ DoSetNextTargetMsgSeqNum
    \/ DoIncrNextSenderMsgSeqNum
    \/ DoIncrNextTargetMsgSeqNum
    \/ DoClose
    \/ Crash

SpecReopen == Init /\ [][NextReopen]_vars

\* the message log alone: the counters are never set
NextLog ==
    \/ Create
    \/ DoSaveMessage
    \/ DoRefresh
    \/ DoReset
    \/ DoClose
    \/ Crash

SpecLog == Init /\ [][NextLog]_vars

\* the counters alone: no message is saved
NextSeq ==
    \/ Create
    \/ DoSetNextSenderMsgSeqNum
    \/ DoSetNextTargetMsgSeqNum
    \/ DoIncrNextSenderMsgSeqNum
    \/ DoIncrNextTargetMsgSeqNum
    \/ DoRefresh
    \/ DoReset
    \/ DoClose
    \/ Crash

SpecSeq == Init /\ [][NextSeq]_vars

\* every operation with a step that fails, on a store that is created, closed
\* and created again
NextFault ==
    \/ Create
    \/ DoClose
    \/ FailCreate
    \/ FailSaveMessage
    \/ FailSetNextSenderMsgSeqNum
    \/ FailSetNextTargetMsgSeqNum
    \/ FailIncrNextSenderMsgSeqNum
    \/ FailIncrNextTargetMsgSeqNum
    \/ FailRefresh
    \/ FailReset

SpecFault == Init /\ [][NextFault]_vars

\* a store that is written and refreshed, and on which a write of a counter
\* fails
NextRefresh ==
    \/ Create
    \/ DoSaveMessage
    \/ DoSetNextSenderMsgSeqNum
    \/ DoIncrNextTargetMsgSeqNum
    \/ DoRefresh
    \/ FailIncrNextSenderMsgSeqNum

SpecRefresh == Init /\ [][NextRefresh]_vars

\* the message log of a store on which a write of a message fails and which
\* is closed or killed, and created again
NextTorn ==
    \/ Create
    \/ DoSaveMessage
    \/ FailBodyWrite
    \/ DoClose
    \/ Crash

SpecTorn == Init /\ [][NextTorn]_vars

\* the message log of a store whose process dies while it appends a header
\* line, and which is created again, written, refreshed and closed
NextTear ==
    \/ Create
    \/ DoSaveMessage
    \/ CrashInSaveMessage
    \/ DoRefresh
    \/ DoClose

SpecTear == Init /\ [][NextTear]_vars

\* the counters of a store kept in a database
NextDB ==
    \/ DBCreate
    \/ DBReset
    \/ DBRefresh
    \/ DBClose
    \/ DBSetNextSenderMsgSeqNum
    \/ DBSetNextTargetMsgSeqNum
    \/ DBIncrNextSenderMsgSeqNum
    \/ DBIncrNextTargetMsgSeqNum

SpecDB == InitDB /\ [][NextDB]_vars

\* a store whose counters are set to ints of up to 64 bits
NextWidth ==
    \/ Create
    \/ DoSetNextSenderMsgSeqNumWide
    \/ DoSetNextTargetMsgSeqNumWide

SpecWidth == Init /\ [][NextWidth]_vars

(***************************************************************************)
(* Properties.                                                             *)
(***************************************************************************)
Opened == alive /\ open = FileNames

Succeeded(name) == alive /\ last.op = name /\ last.err = "nil"

One(msg) == [msgs |-> <<msg>>, err |-> "nil"]

Empty == [msgs |-> <<>>, err |-> "nil"]

DistinctSeqNums == \A s \in SeqNums : Len(saved[s]) <= 1

\* C1: when the successful SaveMessage calls had distinct seqNums, GetMessages(s, s)
\* on the open store returns exactly the message saved under s, for every saved s.
C1_SavedMessageReturned ==
    (Opened /\ DistinctSeqNums) =>
        \A s \in SeqNums : saved[s] # <<>> => GetMessages(W, s, s) = One(saved[s][1])

\* two messages of different lengths under distinct seqNums, the later one
\* under the smaller seqNum
C1_Witness ==
    /\ Succeeded("SaveMessage")
    /\ Opened
    /\ saved[3] = << <<"b", "c">> >>
    /\ saved[1] = << <<"a">> >>
    /\ last.n = 1

\* the store created on the files of w after its store was closed
Reopened(w) == newFileStore(Close(w).w)

\* the store created on the files of w after the process died and every write
\* that was not flushed was lost
Recovered(w) == newFileStore([w EXCEPT !.fs = CrashFiles(w.fs, {})])

SameObs(a, b) ==
    /\ a.sender = b.sender
    /\ a.target = b.target
    /\ TimeEqual(a.ctime, b.ctime)
    /\ a.msgs = b.msgs

\* r: what creating the new store returned; w: the world to compare with
ShowsSame(r, w) == r.err = "nil" /\ SameObs(Obs(r.w), Obs(w))

\* C2: a store that has seen only successful SaveMessage, Set and Incr calls since
\* it was created shows, after Close and the creation of a new store on the same
\* files, the same counters, the same creation time (Time.Equal) and the same
\* GetMessages result for every range.
C2_RoundTrip == (Opened /\ clean) => ShowsSame(Reopened(W), W)

\* a store created on the files a closed store left, holding two messages and
\* counters that were set and incremented
C2_Witness ==
    /\ Succeeded("Create")
    /\ clean
    /\ nsaves = 2
    /\ NextSenderMsgSeqNum(W) = 2
    /\ NextTargetMsgSeqNum(W) = 0
    /\ GetMessages(W, 1, 3) = [msgs |-> << <<"a">>, <<"b", "c">> >>, err |-> "nil"]

\* r: what creating the new store returned; it shows the update of last
ShowsUpdate(r) ==
    /\ last.op = "SaveMessage" =>
         r.err = "nil" /\ GetMessages(r.w, last.n, last.n) = One(last.msg)
    /\ last.op = "SetNextSenderMsgSeqNum" =>
         r.err = "nil" /\ NextSenderMsgSeqNum(r.w) = last.n
    /\ last.op = "SetNextTargetMsgSeqNum" =>
         r.err = "nil" /\ NextTargetMsgSeqNum(r.w) = last.n
    /\ last.op = "IncrNextSenderMsgSeqNum" =>
         r.err = "nil" /\ NextSenderMsgSeqNum(r.w) = last.pre.sender + 1
    /\ last.op = "IncrNextTargetMsgSeqNum" =>
         r.err = "nil" /\ NextTargetMsgSeqNum(r.w) = last.pre.target + 1

\* C3: after a successful SaveMessage, Set or Incr, a store created on the files
\* as a crash leaves them (no write that was not flushed survives) returns the
\* saved message and has the counter's new value.
C3_Durable == (alive /\ last.err = "nil") => ShowsUpdate(Recovered(W))

\* a second message was saved by a store that was itself created after a crash
C3_Witness ==
    /\ Succeeded("SaveMessage")
    /\ nsaves = 2
    /\ clock > 2
    /\ last.msg = <<"b", "c">>
    /\ Len(fs[body].data) = 3
    /\ NextTargetMsgSeqNum(W) = 2

\* C4: after a successful Reset, GetMessages(1, e) returns an empty sequence and
\* no error, for every e.
C4_ResetEmptiesLog ==
    Succeeded("Reset") => \A e \in RangeEnds : GetMessages(W, 1, e) = Empty

\* C5: after a successful Reset both counters are 1, whatever they were before,
\* and a store created afterwards on the same files has both counters 1 as well.
C5_ResetCounters ==
    Succeeded("Reset") =>
        /\ NextSenderMsgSeqNum(W) = 1
        /\ NextTargetMsgSeqNum(W) = 1
        /\ Reopened(W).err = "nil"
        /\ NextSenderMsgSeqNum(Reopened(W).w) = 1
        /\ NextTargetMsgSeqNum(Reopened(W).w) = 1

\* a Reset of a store whose counters were 3 (by Incr) and 0 (by Set)
C5_Witness ==
    /\ Succeeded("Reset")
    /\ Opened
    /\ last.pre.sender = 3
    /\ last.pre.target = 0

\* C6: after a successful Reset the creation time is strictly after the creation
\* time the store had before the Reset.
C6_CreationTimeAdvances ==
    Succeeded("Reset") =>
        TimeAfter(CreationTime(W), [ns |-> last.pre.ctime, mono |-> FALSE])

\* a Reset of a store that had kept the creation time of its session file
\* through a Refresh or the creation of a new store
C6_Witness ==
    /\ Succeeded("Reset")
    /\ Opened
    /\ last.pre.ctime = 1
    /\ clock = MaxClock
    /\ UnmarshalText(fs[session].data).val.ns = CreationTime(W).ns

\* the messages saved since the last Reset under the seqNums of b..e, the last
\* one saved under each, by increasing seqNum
RECURSIVE SavedIn(_, _)
SavedIn(b, e) ==
    IF b > e THEN <<>>
    ELSE SavedIn(b, e - 1)
         \o (IF e \notin SeqNums \/ saved[e] = <<>> THEN <<>>
             ELSE <<saved[e][Len(saved[e])]>>)

\* C7: on an open store GetMessages(b, e) returns no error and, when b > e, an
\* empty sequence, otherwise the messages of exactly the seqNums of b..e that
\* were saved, by increasing seqNum, the seqNums never saved being left out.
C7_RangeInOrder ==
    Opened => \A r \in Ranges :
        GetMessages(W, r[1], r[2]) = [msgs |-> SavedIn(r[1], r[2]), err |-> "nil"]

\* C8: after a successful SetNextTargetMsgSeqNum(k), k >= 1, the target counter
\* is k, and after a successful SetNextSenderMsgSeqNum(k) the sender counter is
\* k, also when k is smaller than the counter was.
C8_SetThenNext ==
    /\ (Succeeded("SetNextTargetMsgSeqNum") /\ last.n >= 1) =>
           NextTargetMsgSeqNum(W) = last.n
    /\ (Succeeded("SetNextSenderMsgSeqNum") /\ last.n >= 1) =>
           NextSenderMsgSeqNum(W) = last.n

\* the target counter was set back from 3 to 1
C8_Witness ==
    /\ Succeeded("SetNextTargetMsgSeqNum")
    /\ last.n = 1
    /\ last.pre.target = 3

\* C9: every successful Incr call raises its counter by exactly 1, and n
\* successful IncrNextSenderMsgSeqNum calls in a row on a store created on no
\* files (or reset) leave the sender counter at 1 + n.
C9_IncrByOne ==
    /\ Succeeded("IncrNextSenderMsgSeqNum") =>
           /\ NextSenderMsgSeqNum(W) = last.pre.sender + 1
           /\ last.run >= 0 => NextSenderMsgSeqNum(W) = 1 + last.run
    /\ Succeeded("IncrNextTargetMsgSeqNum") =>
           /\ NextTargetMsgSeqNum(W) = last.pre.target + 1
           /\ last.run >= 0 => NextTargetMsgSeqNum(W) = 1 + last.run

\* the second IncrNextSenderMsgSeqNum call in a row on a new store
C9_Witness ==
    /\ Succeeded("IncrNextSenderMsgSeqNum")
    /\ last.run = 2
    /\ NextSenderMsgSeqNum(W) = 3

\* C10: in every state of a file store both counters are at least 1.
C10_CountersPositive ==
    alive => NextSenderMsgSeqNum(W) >= 1 /\ NextTargetMsgSeqNum(W) >= 1

\* C11: an operation during which a directory creation, an open, a seek, a write
\* or a flush failed returned an error (or did not return); in particular Refresh,
\* Create and Reset when writing a counter again failed.
C11_FailureReturned == fault # NoFault => last.err # "nil"

\* C12: a Create whose settings have no FileStorePath entry returns an error and
\* no store, and leaves the directory and every file as they were.
C12_NoPathNoStore ==
    [][(last'.op = "Create" /\ last'.n = 0) =>
           /\ last'.err = "error"
           /\ ~alive'
           /\ dir' = dir
           /\ fs' = fs]_vars

\* a Create without the entry, after a store had saved a message
C12_Witness ==
    /\ last.op = "Create"
    /\ last.n = 0
    /\ last.err = "error"
    /\ ~alive
    /\ dir
    /\ Len(fs[body].data) > 0

\* Close called twice in a row
CloseTwice(w) == Close(Close(w).w)

\* w has the cache and the index of the store
KeepsCacheAndIndex(w) == w.cache = cache /\ w.offsets = offsets

\* C13: Close, once or twice in a row, on a store that is open or closed, returns
\* no error and leaves the counters, the creation time and the index as they
\* were; the second Close changes nothing.
C13_CloseIdempotent ==
    alive =>
        /\ Close(W).err = "nil"
        /\ CloseTwice(W).err = "nil"
        /\ KeepsCacheAndIndex(Close(W).w)
        /\ KeepsCacheAndIndex(CloseTwice(W).w)
        /\ CloseTwice(W).w = Close(W).w
        /\ last.op = "Close" => last.err = "nil"

\* a closed store that holds two index entries and a creation time
C13_Witness ==
    /\ Succeeded("Close")
    /\ open = {}
    /\ DOMAIN offsets = {1, 3}
    /\ CreationTime(W).ns = 1
    /\ CloseTwice(W).w.open = {}

\* C14: the creation time is the one the session got when a store was first
\* created for it (or when it was last reset), after every SaveMessage, Set,
\* Incr, Refresh and Close, and in a store created again on the same files.
C14_CreationTimeOnce ==
    (alive /\ born # 0) =>
        /\ TimeEqual(CreationTime(W), [ns |-> born, mono |-> FALSE])
        /\ Reopened(W).err = "nil"
        /\ TimeEqual(CreationTime(Reopened(W).w), [ns |-> born, mono |-> FALSE])

\* a store that was created a second time and then refreshed, the clock having
\* been read three times since the session was first opened
C14_Witness ==
    /\ Succeeded("Refresh")
    /\ Opened
    /\ born = 1
    /\ clock = 4
    /\ NextSenderMsgSeqNum(W) = 2
    /\ ~CreationTime(W).mono

\* C15: a store created while none of the five files exists has both counters 1
\* and returns an empty sequence and no error for every range.
C15_FreshStore ==
    (Succeeded("Create") /\ last.run = 0) =>
        /\ NextSenderMsgSeqNum(W) = 1
        /\ NextTargetMsgSeqNum(W) = 1
        /\ \A r \in Ranges : GetMessages(W, r[1], r[2]) = Empty

\* the store created first: the five files exist now and hold no message
C15_Witness ==
    /\ Succeeded("Create")
    /\ last.run = 0
    /\ Opened
    /\ \A f \in FileNames : fs[f].exists
    /\ fs[body].data = <<>>
    /\ fs[senderseqnums].data = Format019d(1)

\* the last message saved under s
Latest(s) == saved[s][Len(saved[s])]

\* the store of world w returns the last message saved under s
ReturnsLatest(w, s) == GetMessages(w, s, s) = One(Latest(s))

\* a message saved under s before the last one, and different from it, is
\* returned under t only when it is also the last message saved under t
NoEarlierBytes(s, t) ==
    \A i \in 1..(Len(saved[s]) - 1) :
        (saved[s][i] # Latest(s) /\ GetMessages(W, t, t) = One(saved[s][i]))
            => (saved[t] # <<>> /\ Latest(t) = saved[s][i])

\* C16: GetMessages(s, s) returns the bytes of the latest successful SaveMessage
\* under s, on the open store, after a Refresh and in a store created again on
\* the same files; the bytes of an earlier call under s are returned for no seqNum.
C16_LatestWins ==
    Opened => \A s \in SeqNums : saved[s] # <<>> =>
        /\ ReturnsLatest(W, s)
        /\ ReturnsLatest(Refresh(W).w, s)
        /\ ReturnsLatest(Reopened(W).w, s)
        /\ \A t \in SeqNums : NoEarlierBytes(s, t)

\* Refresh called twice in a row
RefreshTwice(w) == Refresh(Refresh(w).w)

\* C17: on an open store whose operations have all returned no error, Refresh
\* returns no error and leaves the counters, the creation time (Time.Equal) and
\* the GetMessages result of every range as they were, and a second Refresh
\* leaves them as the first did.
C17_RefreshNoOp ==
    (Opened /\ allok) =>
        /\ ShowsSame(Refresh(W), W)
        /\ ShowsSame(RefreshTwice(W), Refresh(W).w)

\* a Refresh of a store that held a message, a sender counter set to -1 and a
\* target counter incremented to 2
C17_Witness ==
    /\ Succeeded("Refresh")
    /\ Opened
    /\ allok
    /\ NextSenderMsgSeqNum(W) = 0 - 1
    /\ NextTargetMsgSeqNum(W) = 2
    /\ GetMessages(W, 1, 3) = One(<<"b", "c">>)

\* C18: after a successful Create, Refresh or Reset the index holds exactly the
\* entries that scanning the header file from its start yields.
C18_IndexIsHeaderScan ==
    (Succeeded("Create") \/ Succeeded("Refresh") \/ Succeeded("Reset")) =>
        offsets = ScanHeader(fs[header].data, 1, EmptyMap)

\* C19: every message GetMessages(s, s) returns is one that was written under s,
\* also after a SaveMessage that wrote its header line and not its message, and
\* in a store created again afterwards.
C19_OwnBytes ==
    Opened => \A s \in SeqNums :
        \A i \in 1..Len(GetMessages(W, s, s).msgs) :
            \E j \in 1..Len(saved[s]) : GetMessages(W, s, s).msgs[i] = saved[s][j]

\* C20: a SaveMessage call that returns an error leaves the index as it was:
\* GetMessages returns for every range what it returned before the call.
C20_FailedSaveKeepsIndex ==
    [][(alive /\ alive' /\ last'.op = "SaveMessage" /\ last'.err = "error") =>
           /\ offsets' = offsets
           /\ \A r \in Ranges :
                  GetMessages(W', r[1], r[2]) = GetMessages(W, r[1], r[2])]_vars

\* the counter a successful Refresh of the store shows is the one its file holds
RefreshShowsSenderFile ==
    (Refresh(W).err = "nil" /\ Atoi(fs[senderseqnums].data).ok) =>
        NextSenderMsgSeqNum(Refresh(W).w) = Atoi(fs[senderseqnums].data).val

RefreshShowsTargetFile ==
    (Refresh(W).err = "nil" /\ Atoi(fs[targetseqnums].data).ok) =>
        NextTargetMsgSeqNum(Refresh(W).w) = Atoi(fs[targetseqnums].data).val

\* the last call returned an error because a step on the counter file failed
FailedCall(name) ==
    alive /\ last.op = name /\ last.err = "error" /\ fault # NoFault

\* C21: after a Set or Incr call that returned an error because the seek, the
\* write or the flush of the counter file failed, the counter already has the
\* new value, and a successful Refresh replaces it by the value the file holds.
C21_CacheFirst ==
    /\ FailedCall("SetNextSenderMsgSeqNum") =>
           NextSenderMsgSeqNum(W) = last.n /\ RefreshShowsSenderFile
    /\ FailedCall("SetNextTargetMsgSeqNum") =>
           NextTargetMsgSeqNum(W) = last.n /\ RefreshShowsTargetFile
    /\ FailedCall("IncrNextSenderMsgSeqNum") =>
           NextSenderMsgSeqNum(W) = last.pre.sender + 1 /\ RefreshShowsSenderFile
    /\ FailedCall("IncrNextTargetMsgSeqNum") =>
           NextTargetMsgSeqNum(W) = last.pre.target + 1 /\ RefreshShowsTargetFile

\* SetNextSenderMsgSeqNum(2) failed at its seek: the cache has 2, the file 1
C21_Witness ==
    /\ FailedCall("SetNextSenderMsgSeqNum")
    /\ fault = {<<"seek", senderseqnums>>}
    /\ last.n = 2
    /\ NextSenderMsgSeqNum(W) = 2
    /\ Atoi(fs[senderseqnums].data).val = 1
    /\ NextSenderMsgSeqNum(Refresh(W).w) = 1

\* the counter file f exists and its text parses to n
FileHolds(f, n) == fs[f].exists /\ Atoi(fs[f].data) = [ok |-> TRUE, val |-> n]

CounterOps ==
    {"Create", "Refresh", "Reset", "SetNextSenderMsgSeqNum", "SetNextTargetMsgSeqNum",
     "IncrNextSenderMsgSeqNum", "IncrNextTargetMsgSeqNum"}

\* C22: when the store is open and the last operation (Create, Refresh, Reset, Set
\* or Incr) returned no error, both counter files exist and each parses to the
\* counter the store shows.
C22_CountersOnDisk ==
    (Opened /\ last.op \in CounterOps /\ last.err = "nil") =>
        /\ FileHolds(senderseqnums, NextSenderMsgSeqNum(W))
        /\ FileHolds(targetseqnums, NextTargetMsgSeqNum(W))

\* the position of the first newline of s at or after p, Len(s) + 1 without one
RECURSIVE LineEnd(_, _)
LineEnd(s, p) == IF p > Len(s) \/ s[p] = "\n" THEN p ELSE LineEnd(s, p + 1)

IsInt(f) == Atoi(f).ok

\* the line has commas at i and j and an integer before, between and after them
FieldsAt(l, i, j) ==
    /\ i < j /\ l[i] = "," /\ l[j] = ","
    /\ IsInt(SubSeq(l, 1, i - 1))
    /\ IsInt(SubSeq(l, i + 1, j - 1))
    /\ IsInt(SubSeq(l, j + 1, Len(l)))

\* a well-formed line: three integers separated by commas
WellFormedLine(l) == \E i, j \in 1..Len(l) : FieldsAt(l, i, j)

\* the index with the entry of the well-formed line l
PutLine(idx, l) ==
    LET c == CHOOSE c \in (1..Len(l)) \X (1..Len(l)) : FieldsAt(l, c[1], c[2])
    IN Put(idx, Atoi(SubSeq(l, 1, c[1] - 1)).val,
           [offset |-> Atoi(SubSeq(l, c[1] + 1, c[2] - 1)).val,
            size |-> Atoi(SubSeq(l, c[2] + 1, Len(l))).val])

\* the index of the well-formed lines of s from p on that come before the
\* first line that is not well-formed; bad: there is such a line
RECURSIVE FirstLines(_, _, _)
FirstLinesTo(s, p, e, idx) ==
    IF WellFormedLine(SubSeq(s, p, e - 1))
    THEN FirstLines(s, e + 1, PutLine(idx, SubSeq(s, p, e - 1)))
    ELSE [idx |-> idx, bad |-> TRUE]

FirstLines(s, p, idx) ==
    IF p > Len(s) THEN [idx |-> idx, bad |-> FALSE]
    ELSE FirstLinesTo(s, p, LineEnd(s, p), idx)

\* r: the first lines of the header file
RebuiltFrom(r) ==
    (last.op \in {"Create", "Refresh"} /\ last.n = (IF last.op = "Create" THEN 1 ELSE 0)
     /\ fault = NoFault /\ r.bad)
        => (alive /\ last.err = "nil" /\ offsets = r.idx)

\* C23: when the header file holds k well-formed lines, then a line that is not
\* well-formed, then anything, Create and Refresh return no error and the index
\* holds exactly the entries of the first k lines.
C23_TolerantRebuild == RebuiltFrom(FirstLines(fs[header].data, 1, EmptyMap))

\* C24: after the process died with a part of a header line written and the
\* store was created again, a message saved with success is returned by
\* GetMessages of the store created on the files after a Close.
C24_TornAppendRecovers ==
    (Opened /\ nfaults > 0 /\ Succeeded("SaveMessage")) =>
        GetMessages(Reopened(W).w, last.n, last.n) = One(last.msg)

\* C25: on an open store every index entry lies within the body file: its offset
\* is not negative and offset + size is at most the length of the body file.
C25_IndexWithinBody ==
    Opened =>
        \A s \in DOMAIN offsets :
            offsets[s].offset >= 0 /\ offsets[s].offset + offsets[s].size <= Len(fs[body].data)

\* C26: when a Refresh returned the error of an open that failed, none of the
\* files of the store is open.
C26_NoLeakOnFailedOpen ==
    (alive /\ last.op = "Refresh" /\ last.err = "error"
        /\ \E f \in FileNames : fault = {<<"open", f>>})
    => open = {}

WriteOps ==
    {"SaveMessage", "SetNextSenderMsgSeqNum", "SetNextTargetMsgSeqNum",
     "IncrNextSenderMsgSeqNum", "IncrNextTargetMsgSeqNum"}

\* r: what a Refresh of the closed store returned
WritesSucceedAfter(r) ==
    r.err = "nil" =>
        /\ SaveMessage(r.w, 1, <<"a">>).err = "nil"
        /\ SetNextSenderMsgSeqNum(r.w, 2).err = "nil"
        /\ SetNextTargetMsgSeqNum(r.w, 2).err = "nil"
        /\ IncrNextSenderMsgSeqNum(r.w).err = "nil"
        /\ IncrNextTargetMsgSeqNum(r.w).err = "nil"

\* a SaveMessage, Set or Incr call on the closed store returns an error and
\* leaves the files as they were, and the same calls succeed after a Refresh
ClosedProtocol ==
    (alive /\ open = {}) =>
        /\ last'.op \in WriteOps => (last'.err = "error" /\ fs' = fs)
        /\ WritesSucceedAfter(Refresh(W))

\* C27: between Close and the next Refresh or Reset every SaveMessage, Set and
\* Incr call returns an error and leaves the five files unchanged; after a
\* successful Refresh the same calls return no error.
C27_ClosedProtocol == [][ClosedProtocol]_vars

\* the files of fnames are as they were
SameFiles(fnames) == \A f \in fnames : fs'[f] = fs[f]

\* a call that returned left alone what it is not about
Frame ==
    /\ (alive' /\ last'.op \in {"SetNextSenderMsgSeqNum", "IncrNextSenderMsgSeqNum"}) =>
           /\ NextTargetMsgSeqNum(W') = NextTargetMsgSeqNum(W)
           /\ CreationTime(W') = CreationTime(W)
           /\ offsets' = offsets
           /\ SameFiles({body, header, session, targetseqnums})
    /\ (alive' /\ last'.op \in {"SetNextTargetMsgSeqNum", "IncrNextTargetMsgSeqNum"}) =>
           /\ NextSenderMsgSeqNum(W') = NextSenderMsgSeqNum(W)
           /\ CreationTime(W') = CreationTime(W)
           /\ offsets' = offsets
           /\ SameFiles({body, header, session, senderseqnums})
    /\ (alive' /\ last'.op = "SaveMessage") =>
           /\ NextSenderMsgSeqNum(W') = NextSenderMsgSeqNum(W)
           /\ NextTargetMsgSeqNum(W') = NextTargetMsgSeqNum(W)
           /\ CreationTime(W') = CreationTime(W)
           /\ SameFiles({session, senderseqnums, targetseqnums})

\* C28: a Set or Incr call of one counter leaves the other counter, the creation
\* time, the index and the files other than its counter file unchanged, and
\* SaveMessage leaves both counters, the creation time and the session and
\* counter files unchanged.
C28_Frame == [][Frame]_vars

\* the sender counter was set on a store that holds a message and whose target
\* counter is 2
C28_Witness ==
    /\ Succeeded("SetNextSenderMsgSeqNum")
    /\ last.n = 0
    /\ NextTargetMsgSeqNum(W) = 2
    /\ saved[1] # <<>>

\* C29: in the stores kept in a database, after a Create, Refresh or Reset that
\* returned no error and any Set and Incr calls, those whose update failed
\* included, the cached counters are the ones of the session's record, and a
\* Set or Incr call that returned an error has left the cached counters as they
\* were.
C29_CacheIsRecord ==
    (db.store = "open" /\ db.loaded) =>
        /\ db.nextSender = db.outgoing
        /\ db.nextTarget = db.incoming
        /\ (last.err = "error" /\ last.op \in CounterOps \ {"Create", "Refresh", "Reset"}) =>
               (db.nextSender = last.pre.sender /\ db.nextTarget = last.pre.target)

\* the counter file f has the width of the encoding and parses to the wide int n
FixedWidth(f, n) ==
    Len(fs[f].data) = SeqNumWidth /\ AtoiWide(fs[f].data) = [ok |-> TRUE, val |-> n]

\* C30: after SetNext*MsgSeqNum(n) the counter file is exactly 19 bytes long,
\* whatever was written before, and the whole file parses to n.
C30_FixedWidth ==
    /\ Succeeded("SetNextSenderMsgSeqNum") => FixedWidth(senderseqnums, last.n)
    /\ Succeeded("SetNextTargetMsgSeqNum") => FixedWidth(targetseqnums, last.n)

====
